---- MODULE Spec2Model ----
(***************************************************************************)
(* File_Splitter: the instruction parser and the PDF splitter of           *)
(* server/pdf-splitter.ts, the request handler of server/routes.ts and the *)
(* job store of server/storage.ts.                                         *)
(*                                                                         *)
(* A string is a sequence of one-character strings; a message or a file    *)
(* name built by a template literal is the concatenation of its fixed      *)
(* fragments (kept whole, e.g. "Invalid range: ") and the characters of    *)
(* the interpolated values.                                                *)
(***************************************************************************)
EXTENDS Integers, Sequences, FiniteSets, TLC

VARIABLES
    instructions,   \* the string handed to parseInstructions on its own
    parsed,         \* the outcome of that call
    call,           \* the splitPdf activation of each caller
    req,            \* the POST /api/split-pdf handler run of each request
    pdfJobs,        \* MemStorage.pdfJobs: job id -> job record
    lookup          \* the last answer of GET /api/job/:id

vars == <<instructions, parsed, call, req, pdfJobs, lookup>>

----------------------------------------------------------------------------
(* Bounds of the model *)

\* longest instruction string handed to parseInstructions on its own
MaxLen == 5

\* most pages of a source document
MaxPages == 2

\* most groups handed to splitPdf by a direct caller
MaxGroups == 2

\* the characters instruction strings are made of: three digits, the two
\* separators, white space and one character that is none of these
Alphabet == {"0", "1", "2", "-", ",", " ", "x"}

Strings(n) == UNION {[1..k -> Alphabet] : k \in 0..n}

----------------------------------------------------------------------------
(* JavaScript string and number primitives used by the code *)

WhiteSpace == {" "}

DecDigits == {"0", "1", "2", "3", "4", "5", "6", "7", "8", "9"}

HexDigits == DecDigits \cup {"a", "b", "c", "d", "e", "f"}

DigitValue(c) ==
    CASE c = "0" -> 0 [] c = "1" -> 1 [] c = "2" -> 2 [] c = "3" -> 3
      [] c = "4" -> 4 [] c = "5" -> 5 [] c = "6" -> 6 [] c = "7" -> 7
      [] c = "8" -> 8 [] c = "9" -> 9 [] c = "a" -> 10 [] c = "b" -> 11
      [] c = "c" -> 12 [] c = "d" -> 13 [] c = "e" -> 14 [] c = "f" -> 15

DigitChar(d) ==
    CASE d = 0 -> "0" [] d = 1 -> "1" [] d = 2 -> "2" [] d = 3 -> "3"
      [] d = 4 -> "4" [] d = 5 -> "5" [] d = 6 -> "6" [] d = 7 -> "7"
      [] d = 8 -> "8" [] d = 9 -> "9"

\* String.prototype.includes
includes(s, c) == \E i \in 1..Len(s) : s[i] = c

RECURSIVE trimStart(_)
trimStart(s) ==
    IF s # <<>> /\ Head(s) \in WhiteSpace THEN trimStart(Tail(s)) ELSE s

RECURSIVE trimEnd(_)
trimEnd(s) ==
    IF s # <<>> /\ s[Len(s)] \in WhiteSpace
    THEN trimEnd(SubSeq(s, 1, Len(s) - 1))
    ELSE s

\* String.prototype.trim
trim(s) == trimEnd(trimStart(s))

\* String.prototype.split with a one-character separator: "" gives [""]
RECURSIVE split(_, _)
split(s, sep) ==
    IF ~includes(s, sep)
    THEN <<s>>
    ELSE LET i == CHOOSE j \in 1..Len(s) :
                      s[j] = sep /\ \A k \in 1..(j - 1) : s[k] # sep
         IN  <<SubSeq(s, 1, i - 1)>> \o split(SubSeq(s, i + 1, Len(s)), sep)

\* a JavaScript number: NaN, or an integer value
NaN == [nan |-> TRUE, val |-> 0]

Num(n) == [nan |-> FALSE, val |-> n]

isNaN(x) == x.nan

\* the longest prefix of s made of characters of digits
RECURSIVE DigitPrefix(_, _)
DigitPrefix(s, digits) ==
    IF s # <<>> /\ Head(s) \in digits
    THEN <<Head(s)>> \o DigitPrefix(Tail(s), digits)
    ELSE <<>>

\* the value of a digit string in the given radix, read left to right
RECURSIVE DigitsValue(_, _, _)
DigitsValue(d, radix, acc) ==
    IF d = <<>> THEN acc
    ELSE DigitsValue(Tail(d), radix, acc * radix + DigitValue(Head(d)))

\* parseInt(s) without a radix: leading white space is skipped, one sign is
\* read, a 0x/0X prefix selects radix 16, then the longest run of digits is
\* read and whatever follows it is ignored; no digit at all gives NaN
parseInt(s) ==
    LET t      == trimStart(s)
        signed == t # <<>> /\ Head(t) \in {"+", "-"}
        sign   == IF t # <<>> /\ Head(t) = "-" THEN -1 ELSE 1
        u      == IF signed THEN Tail(t) ELSE t
        hex    == Len(u) >= 2 /\ u[1] = "0" /\ u[2] \in {"x", "X"}
        body   == IF hex THEN SubSeq(u, 3, Len(u)) ELSE u
        digits == IF hex THEN HexDigits ELSE DecDigits
        radix  == IF hex THEN 16 ELSE 10
        d      == DigitPrefix(body, digits)
    IN  IF d = <<>> THEN NaN ELSE Num(sign * DigitsValue(d, radix, 0))

\* Number to string, as a template literal formats an integer
RECURSIVE NatToString(_)
NatToString(n) ==
    IF n < 10 THEN <<DigitChar(n)>>
    ELSE NatToString(n \div 10) \o <<DigitChar(n % 10)>>

NumberToString(n) == IF n < 0 THEN <<"-">> \o NatToString(-n) ELSE NatToString(n)

----------------------------------------------------------------------------
(* parseInstructions, pdf-splitter.ts *)

\* parseInstructions not called yet
NotCalled == [called |-> FALSE]

\* the outcome of a call: a returned value or a thrown Error with a message
Returned(v) == [threw |-> FALSE, value |-> v, message |-> <<>>]

Thrown(m) == [threw |-> TRUE, value |-> <<>>, message |-> m]

RangeErrorMessage(part) == <<"Invalid range: ">> \o part

PageErrorMessage(part) == <<"Invalid page number: ">> \o part

\* line 40 without its last disjunct: a start below 1 passes
RangeRejectedNoLowerBound(start, end) ==
    isNaN(start) \/ isNaN(end) \/ start.val > end.val

\* the condition of line 40
RangeRejected(start, end) ==
    isNaN(start) \/ isNaN(end) \/ start.val > end.val \/ start.val < 1

\* line 51 without the comparison: page 0 passes
PageRejectedNoLowerBound(page) == isNaN(page)

\* the condition of line 51
PageRejected(page) == isNaN(page) \/ page.val < 1

\* the loop of lines 43-46 run from end down to start
ExpandRangeDescending(start, end) == [i \in 1..(end - start + 1) |-> end - i + 1]

\* the loop of lines 43-46 with i < end for i <= end: the end is left out
ExpandRangeExclusive(start, end) == [i \in 1..(end - start) |-> start + i - 1]

\* the loop of lines 43-46: start, start+1, ..., end
ExpandRange(start, end) == [i \in 1..(end - start + 1) |-> start + i - 1]

\* endpoints taken from the first and the last piece
RangeEndpointsFirstLast(part) ==
    LET pieces == split(part, "-")
    IN  <<parseInt(trim(pieces[1])), parseInt(trim(pieces[Len(pieces)]))>>

\* const [start, end] = part.split('-').map(s => parseInt(s.trim()))
RangeEndpoints(part) ==
    LET pieces == split(part, "-")
    IN  [k \in 1..Len(pieces) |-> parseInt(trim(pieces[k]))]

\* the for loop over parts: the first rejected part throws
RECURSIVE ParseParts(_, _)
ParseParts(parts, ranges) ==
    IF parts = <<>> THEN Returned(ranges)
    ELSE LET part == Head(parts)
         IN  IF includes(part, "-")
             THEN LET start == RangeEndpoints(part)[1]
                      end   == RangeEndpoints(part)[2]
                  IN  IF RangeRejected(start, end)
                      THEN Thrown(RangeErrorMessage(part))
                      ELSE ParseParts(Tail(parts),
                               Append(ranges, ExpandRange(start.val, end.val)))
             ELSE LET page == parseInt(part)
                  IN  IF PageRejected(page)
                      THEN Thrown(PageErrorMessage(part))
                      ELSE ParseParts(Tail(parts), Append(ranges, <<page.val>>))

\* instructions.split(',').map(s => s.trim())
InstructionParts(s) ==
    LET raw == split(s, ",") IN [k \in 1..Len(raw) |-> trim(raw[k])]

parseInstructions(s) == ParseParts(InstructionParts(s), <<>>)

----------------------------------------------------------------------------
(* splitPdf, pdf-splitter.ts.  The PDF and archive libraries are modelled  *)
(* by what the code uses of them: a document is the sequence of its pages, *)
(* PDFDocument.load rejects bytes that are no document, copyPages throws   *)
(* for an index that is no page of the source, save serializes the pages,  *)
(* JSZip keeps one entry per name, generateAsync resolves or rejects.      *)

\* an optional value (undefined, or a value)
Undefined == <<>>

Defined(v) == <<v>>

\* the content of the k-th page of a source document
PageContent(k) == <<"pA", "pB", "pC", "pD", "pE", "pF">>[k]

SourceDocument(n) ==
    [loadable |-> TRUE, encrypted |-> FALSE, pages |-> [k \in 1..n |-> PageContent(k)]]

NotADocument == [loadable |-> FALSE, encrypted |-> FALSE, pages |-> <<>>]

\* a document of n pages whose trailer has an Encrypt entry
EncryptedDocument(n) == [SourceDocument(n) EXCEPT !.encrypted = TRUE]

\* the message of the EncryptedPDFError PDFDocument.load rejects with when the
\* document is encrypted and ignoreEncryption is not set (written without the
\* grave accents it has around the two calls)
EncryptedErrorMessage ==
    <<"Input document to PDFDocument.load is encrypted. You can use PDFDocument.load(..., { ignoreEncryption: true }) if you wish to load the document anyways.">>

\* the message PDFDocument.load rejects with
LoadErrorMessage == <<"Failed to parse PDF document">>

\* the message of the TypeError copyPages throws for an index outside the source
CopyErrorMessage == <<"Cannot read properties of undefined (reading 'node')">>

\* the message zip.generateAsync rejects with
ArchiveErrorMessage == <<"Failed to generate archive">>

\* newPdf.save(): the bytes of a document
Serialize(pages) == <<"%PDF">> \o pages \o <<"%%EOF">>

\* the base name of a path: what follows its last slash
Basename(p) ==
    LET slashes == {i \in 1..Len(p) : p[i] = "/"}
    IN  IF slashes = {} THEN p
        ELSE SubSeq(p, (CHOOSE i \in slashes : \A j \in slashes : j <= i) + 1, Len(p))

\* path.parse(originalFilename).name: the base name up to its last dot; a
\* base name without a dot, or whose only dot is its first character, or
\* "..", has no extension
PathName(p) ==
    LET base == Basename(p)
        dots == {i \in 1..Len(base) : base[i] = "."}
        last == CHOOSE i \in dots : \A j \in dots : j <= i
    IN  IF dots = {} \/ last = 1 \/ base = <<".", ".">>
        THEN base
        ELSE SubSeq(base, 1, last - 1)

\* ${range[k]} in a template literal
ElementString(range, k) ==
    IF k \in DOMAIN range THEN NumberToString(range[k]) ELSE <<"undefined">>

\* the branch with range.length !== 1 for every group: lines 118-119 only
OutputFilenameAlwaysPages(baseFilename, range) ==
    baseFilename \o <<"-pages-">> \o ElementString(range, 1) \o <<"-">>
        \o ElementString(range, Len(range)) \o <<".pdf">>

\* lines 114-120
OutputFilename(baseFilename, range) ==
    IF Len(range) = 1
    THEN baseFilename \o <<"-page-">> \o ElementString(range, 1) \o <<".pdf">>
    ELSE baseFilename \o <<"-pages-">> \o ElementString(range, 1) \o <<"-">>
             \o ElementString(range, Len(range)) \o <<".pdf">>

ZipFilename(baseFilename) == baseFilename \o <<"-split.zip">>

PageMissingMessage(pageNum, totalPages) ==
    <<"Page ">> \o NumberToString(pageNum) \o <<" does not exist. PDF has ">>
        \o NumberToString(totalPages) \o <<" pages.">>

\* line 94 off by one: page totalPages + 1 passes
PageOutOfBoundsOffByOne(pageNum, totalPages) == pageNum > totalPages + 1

\* the condition of line 94
PageOutOfBounds(pageNum, totalPages) == pageNum > totalPages

\* lines 92-98: the first page number, in scan order, that is out of bounds
RECURSIVE FirstBadPage(_, _)
FirstBadPage(pageNums, totalPages) ==
    IF pageNums = <<>> THEN Undefined
    ELSE IF PageOutOfBounds(Head(pageNums), totalPages) THEN Defined(Head(pageNums))
    ELSE FirstBadPage(Tail(pageNums), totalPages)

\* the validation loop reporting the last bad page number instead of
\* throwing at the first
RECURSIVE ValidateRangesLast(_, _)
ValidateRangesLast(ranges, totalPages) ==
    IF ranges = <<>> THEN Undefined
    ELSE LET later == ValidateRangesLast(Tail(ranges), totalPages)
             here  == FirstBadPage([k \in 1..Len(Head(ranges)) |->
                                       Head(ranges)[Len(Head(ranges)) + 1 - k]],
                                   totalPages)
         IN  IF later # Undefined THEN later ELSE here

RECURSIVE ValidateRanges(_, _)
ValidateRanges(ranges, totalPages) ==
    IF ranges = <<>> THEN Undefined
    ELSE LET bad == FirstBadPage(Head(ranges), totalPages)
         IN  IF bad # Undefined THEN bad
             ELSE ValidateRanges(Tail(ranges), totalPages)

\* zip.file(name, data): a name already in the archive has its data replaced
ZipFile(zip, name, data) ==
    IF \E k \in 1..Len(zip) : zip[k].name = name
    THEN [k \in 1..Len(zip) |->
             IF zip[k].name = name THEN [name |-> name, data |-> data] ELSE zip[k]]
    ELSE Append(zip, [name |-> name, data |-> data])

\* lines 134-138
RECURSIVE ZipOf(_, _)
ZipOf(results, zip) ==
    IF results = <<>> THEN zip
    ELSE ZipOf(Tail(results), ZipFile(zip, Head(results).filename, Head(results).data))

\* the SplitPdfResult of the catch block, lines 151-157
Failure(message) ==
    [success |-> FALSE, results |-> <<>>, zipBuffer |-> Undefined,
     zipFilename |-> Undefined, error |-> Defined(message)]

\* the SplitPdfResult of lines 144-149
Success(results, zipBuffer, zipFilename) ==
    [success |-> TRUE, results |-> results, zipBuffer |-> zipBuffer,
     zipFilename |-> zipFilename, error |-> Undefined]

\* line 122-127 with size taken from the group, not from the bytes
SplitResultSizeOfRange(filename, pdfBytes, range) ==
    [filename |-> filename, data |-> pdfBytes, pages |-> range, size |-> Len(range)]

\* lines 122-127
SplitResult(filename, pdfBytes, range) ==
    [filename |-> filename, data |-> pdfBytes, pages |-> range, size |-> Len(pdfBytes)]

\* the requests in flight at the server
Reqs == {"r1", "r2"}

\* the callers of splitPdf: the handler run of each request, and code that
\* imports pdf-splitter.ts and calls it
Lib == "lib"

Callers == Reqs \cup {Lib}

\* no activation
IdleCall ==
    [pc |-> "idle", pdfBuffer |-> NotADocument, ranges |-> <<>>,
     originalFilename |-> <<>>, returnZip |-> FALSE,
     pdfDoc |-> <<>>, totalPages |-> 0, results |-> <<>>, i |-> 0, j |-> 0,
     newPdf |-> <<>>, created |-> 0, copied |-> <<>>, result |-> Undefined]

\* splitPdf(options) entered: the activation waits on PDFDocument.load
EnterSplitPdf(pdfBuffer, ranges, originalFilename, returnZip) ==
    [IdleCall EXCEPT !.pc = "load", !.pdfBuffer = pdfBuffer, !.ranges = ranges,
                     !.originalFilename = originalFilename, !.returnZip = returnZip]

Return(c, result) == [c EXCEPT !.pc = "returned", !.result = Defined(result)]

\* a catch block that returns the outputs built before the failure
CatchKeepingResults(c, message) ==
    Return(c, [Failure(message) EXCEPT !.results = c.results])

\* lines 151-157: an error thrown in the try block ends the activation
Catch(c, message) == Return(c, Failure(message))

\* line 88-89
Load(c) ==
    /\ call[c].pc = "load"
    /\ call' = [call EXCEPT ![c] =
           IF ~call[c].pdfBuffer.loadable
           THEN Catch(call[c], LoadErrorMessage)
           ELSE [call[c] EXCEPT !.pc = "validate",
                                !.pdfDoc = call[c].pdfBuffer.pages,
                                !.totalPages = Len(call[c].pdfBuffer.pages)]]
    /\ UNCHANGED <<instructions, parsed, req, pdfJobs, lookup>>

\* where the loop of line 103 stands with i groups done
LoopOrArchive(c, i) == IF i < Len(c.ranges) THEN "create" ELSE "archive"

\* results kept in one list shared by the activations: what an earlier
\* activation left in it
StaleResults ==
    LET left == {c \in Callers : call[c].pc = "returned" /\ call[c].results # <<>>}
    IN  IF left = {} THEN <<>> ELSE call[CHOOSE c \in left : TRUE].results

\* line 100: the results list of an activation, new and empty
NewResults == <<>>

\* lines 91-101
Validate(c) ==
    /\ call[c].pc = "validate"
    /\ LET bad == ValidateRanges(call[c].ranges, call[c].totalPages)
       IN  call' = [call EXCEPT ![c] =
               IF bad # Undefined
               THEN Catch(call[c], PageMissingMessage(bad[1], call[c].totalPages))
               ELSE [call[c] EXCEPT !.results = NewResults, !.i = 0,
                                    !.pc = LoopOrArchive(call[c], 0)]]
    /\ UNCHANGED <<instructions, parsed, req, pdfJobs, lookup>>

\* lines 104-105: PDFDocument.create()
CreateDocument(c) ==
    /\ call[c].pc = "create"
    /\ call' = [call EXCEPT ![c] =
           [call[c] EXCEPT !.newPdf = <<>>, !.created = @ + 1, !.j = 0,
                           !.pc = IF Len(call[c].ranges[call[c].i + 1]) > 0
                                  THEN "copy" ELSE "save"]]
    /\ UNCHANGED <<instructions, parsed, req, pdfJobs, lookup>>

\* an index that takes the page number as a position of the source
CopyIndexOneBased(pageNum) == pageNum

\* line 108: the 0-based index of page pageNum in the source
CopyIndex(pageNum) == pageNum - 1

\* lines 107-110: one turn of the page loop
CopyPage(c) ==
    /\ call[c].pc = "copy"
    /\ LET range   == call[c].ranges[call[c].i + 1]
           pageNum == range[call[c].j + 1]
           index   == CopyIndex(pageNum)
           logged  == [call[c] EXCEPT !.copied = Append(@, index)]
       IN  call' = [call EXCEPT ![c] =
               IF index \notin 0..(call[c].totalPages - 1)
               THEN Catch(logged, CopyErrorMessage)
               ELSE [logged EXCEPT !.newPdf = Append(@, call[c].pdfDoc[index + 1]),
                                   !.j = @ + 1,
                                   !.pc = IF call[c].j + 1 < Len(range)
                                          THEN "copy" ELSE "save"]]
    /\ UNCHANGED <<instructions, parsed, req, pdfJobs, lookup>>

\* a push that puts the new output before the earlier ones
PushResultFront(results, result) == <<result>> \o results

\* line 122: results.push
PushResult(results, result) == Append(results, result)

\* lines 112-128: save, name and push the output of group i
Save(c) ==
    /\ call[c].pc = "save"
    /\ LET range    == call[c].ranges[call[c].i + 1]
           pdfBytes == Serialize(call[c].newPdf)
           filename == OutputFilename(PathName(call[c].originalFilename), range)
       IN  call' = [call EXCEPT ![c] =
               [call[c] EXCEPT !.results = PushResult(@, SplitResult(filename, pdfBytes, range)),
                               !.i = @ + 1,
                               !.pc = LoopOrArchive(call[c], call[c].i + 1)]]
    /\ UNCHANGED <<instructions, parsed, req, pdfJobs, lookup>>

\* lines 130-149: the archive, when asked for, and the result
Archive(c) ==
    /\ call[c].pc = "archive"
    /\ \E generated \in BOOLEAN :
           /\ ~call[c].returnZip => generated
           /\ call' = [call EXCEPT ![c] =
                  IF ~call[c].returnZip
                  THEN Return(call[c], Success(call[c].results, Undefined, Undefined))
                  ELSE IF generated
                  THEN Return(call[c],
                           Success(call[c].results,
                                   Defined(ZipOf(call[c].results, <<>>)),
                                   Defined(ZipFilename(PathName(call[c].originalFilename)))))
                  ELSE Catch(call[c], ArchiveErrorMessage)]
    /\ UNCHANGED <<instructions, parsed, req, pdfJobs, lookup>>

SplitStep(c) ==
    \/ Load(c)
    \/ Validate(c)
    \/ CreateDocument(c)
    \/ CopyPage(c)
    \/ Save(c)
    \/ Archive(c)

----------------------------------------------------------------------------
(* splitPdfFromInstructions, pdf-splitter.ts *)

\* the document looked at before the instructions are parsed
EnterSplitPdfFromInstructionsLoadFirst(pdfBuffer, instr, originalFilename, returnZip) ==
    IF ~pdfBuffer.loadable
    THEN Return(IdleCall, Failure(LoadErrorMessage))
    ELSE LET ranges == parseInstructions(instr)
         IN  IF ranges.threw
             THEN Return(IdleCall, Failure(ranges.message))
             ELSE EnterSplitPdf(pdfBuffer, ranges.value, originalFilename, returnZip)

\* lines 67-81: the activation after the synchronous part of the call: a
\* parse error is caught and returned, otherwise splitPdf is entered
EnterSplitPdfFromInstructions(pdfBuffer, instr, originalFilename, returnZip) ==
    LET ranges == parseInstructions(instr)
    IN  IF ranges.threw
        THEN Return(IdleCall, Failure(ranges.message))
        ELSE EnterSplitPdf(pdfBuffer, ranges.value, originalFilename, returnZip)

----------------------------------------------------------------------------
(* MemStorage, storage.ts *)

Null == <<>>

\* randomUUID(): an identifier no earlier call returned
UUIDs == {"u1", "u2"}

\* identifiers drawn without regard to those in use
randomUUIDRepeating(map) == UUIDs

\* line 40: the identifiers randomUUID() may give, none of them in use
randomUUID(map) == UUIDs \ DOMAIN map

\* lines 41-48 (createdAt is not modelled)
NewPdfJob(id, job) ==
    [id |-> id, originalFilename |-> job.originalFilename,
     instructions |-> job.instructions, status |-> "processing",
     resultFiles |-> Null, errorMessage |-> Null]

\* this.pdfJobs.set(id, job)
MapSet(map, id, job) ==
    [k \in DOMAIN map \cup {id} |-> IF k = id THEN job ELSE map[k]]

\* an update that is lost: the map stays as it is
updatePdfJobLost(map, id, updates) == map

\* an update applied to every stored job, whatever its id
updatePdfJobEvery(map, id, updates) ==
    [k \in DOMAIN map |->
        [f \in DOMAIN map[k] |-> IF f \in DOMAIN updates THEN updates[f] ELSE map[k][f]]]

\* lines 57-64: the map after updatePdfJob(id, updates); updates is a record
\* whose fields replace those of the stored job
updatePdfJob(map, id, updates) ==
    IF id \notin DOMAIN map THEN map
    ELSE MapSet(map, id,
             [f \in DOMAIN map[id] |->
                 IF f \in DOMAIN updates THEN updates[f] ELSE map[id][f]])

----------------------------------------------------------------------------
(* POST /api/split-pdf, routes.ts *)

\* a request that is not part of the run
NoRequest ==
    [pc |-> "off", file |-> Undefined, instructions |-> Undefined,
     job |-> Undefined, error |-> Undefined, responses |-> <<>>]

\* a request that has not reached the server yet
ComingRequest == [NoRequest EXCEPT !.pc = "coming"]

JsonResponse(status, message) ==
    [status |-> status, contentType |-> "application/json", message |-> message,
     filename |-> Undefined, body |-> Undefined]

\* lines 60-62
ZipResponse(zipFilename, zipBuffer) ==
    [status |-> 200, contentType |-> "application/zip", message |-> <<>>,
     filename |-> zipFilename, body |-> zipBuffer]

\* a response sent two times
RespondTwice(q, response) ==
    [q EXCEPT !.pc = "done", !.responses = @ \o <<response, response>>]

\* res.status(..).json(..) or res.send(..) ends the handler run
Respond(q, response) ==
    [q EXCEPT !.pc = "done", !.responses = Append(@, response)]

\* the uploads of the run: none, a text file, a PDF of MaxPages pages, a
\* file sent as a PDF that is no document, and a PDF whose name starts with
\* the character U+6587, held as one element of the name
UploadedFiles ==
    { Undefined,
      Defined([mimetype |-> "text/plain", originalname |-> <<"r", ".", "t", "x", "t">>,
               buffer |-> NotADocument]),
      Defined([mimetype |-> "application/pdf", originalname |-> <<"r", ".", "p", "d", "f">>,
               buffer |-> SourceDocument(MaxPages)]),
      Defined([mimetype |-> "application/pdf", originalname |-> <<"r", ".", "p", "d", "f">>,
               buffer |-> NotADocument]),
      Defined([mimetype |-> "application/pdf",
               originalname |-> <<"U+6587", ".", "p", "d", "f">>,
               buffer |-> SourceDocument(MaxPages)]) }

\* the instructions fields of the run: missing, "", "1", "2-2", "1-2,1",
\* "1,1", "2,1", "9", "9,x", "2-1", "1x"
InstructionFields ==
    { Undefined,
      Defined(<<>>),
      Defined(<<"1">>),
      Defined(<<"2", "-", "2">>),
      Defined(<<"1", "-", "2", ",", "1">>),
      Defined(<<"1", ",", "1">>),
      Defined(<<"2", ",", "1">>),
      Defined(<<"9">>),
      Defined(<<"9", ",", "x">>),
      Defined(<<"2", "-", "1">>),
      Defined(<<"1", "x">>) }

\* a request arrives with its multipart form parsed by multer
Receive(r) ==
    /\ req[r].pc = "coming"
    /\ \E file \in UploadedFiles, instr \in InstructionFields :
           req' = [req EXCEPT ![r] =
                      [req[r] EXCEPT !.pc = "validate", !.file = file,
                                     !.instructions = instr]]
    /\ UNCHANGED <<instructions, parsed, call, pdfJobs, lookup>>

\* a schema of a string of any length
InstructionsAcceptedEmpty(instr) == instr # Undefined

\* splitInstructionsSchema.safeParse({ instructions }).success: a string of
\* at least one character
InstructionsAccepted(instr) == instr # Undefined /\ Len(instr[1]) >= 1

\* the checks run with the instructions check first
ValidationErrorInstructionsFirst(file, instr) ==
    IF ~InstructionsAccepted(instr) THEN Defined(<<"Invalid instructions">>)
    ELSE IF file = Undefined THEN Defined(<<"No PDF file uploaded">>)
    ELSE IF file[1].mimetype # "application/pdf" THEN Defined(<<"File must be a PDF">>)
    ELSE Undefined

\* lines 17-33: the message of the first check that fails, if any
ValidationError(file, instr) ==
    IF file = Undefined THEN Defined(<<"No PDF file uploaded">>)
    ELSE IF file[1].mimetype # "application/pdf" THEN Defined(<<"File must be a PDF">>)
    ELSE IF ~InstructionsAccepted(instr) THEN Defined(<<"Invalid instructions">>)
    ELSE Undefined

\* lines 17-33
ValidateRequest(r) ==
    /\ req[r].pc = "validate"
    /\ LET failed == ValidationError(req[r].file, req[r].instructions)
       IN  req' = [req EXCEPT ![r] =
               IF failed # Undefined
               THEN Respond(req[r], JsonResponse(400, failed[1]))
               ELSE [req[r] EXCEPT !.pc = "createJob"]]
    /\ UNCHANGED <<instructions, parsed, call, pdfJobs, lookup>>

\* lines 35-39, storage.ts lines 39-51
CreateJob(r) ==
    /\ req[r].pc = "createJob"
    /\ \E id \in randomUUID(pdfJobs) :
           /\ pdfJobs' = MapSet(pdfJobs, id,
                            NewPdfJob(id, [originalFilename |-> req[r].file[1].originalname,
                                           instructions |-> req[r].instructions[1]]))
           /\ req' = [req EXCEPT ![r] = [req[r] EXCEPT !.pc = "split", !.job = Defined(id)]]
    /\ UNCHANGED <<instructions, parsed, call, lookup>>

\* lines 43-48: the call of splitPdfFromInstructions, returnZip = true
CallSplit(r) ==
    /\ req[r].pc = "split"
    /\ call' = [call EXCEPT ![r] =
           EnterSplitPdfFromInstructions(req[r].file[1].buffer, req[r].instructions[1],
                                         req[r].file[1].originalname, TRUE)]
    /\ req' = [req EXCEPT ![r] = [req[r] EXCEPT !.pc = "awaitSplit"]]
    /\ UNCHANGED <<instructions, parsed, pdfJobs, lookup>>

\* the filenames of the results, last one first
RECURSIVE FilenamesReversed(_)
FilenamesReversed(results) ==
    IF results = <<>> THEN <<>>
    ELSE FilenamesReversed(Tail(results)) \o <<Head(results).filename>>

\* line 56: splitResult.results.map(r => r.filename)
RECURSIVE Filenames(_)
Filenames(results) ==
    IF results = <<>> THEN <<>>
    ELSE <<Head(results).filename>> \o Filenames(Tail(results))

\* an update that sets the result files and leaves the status as it is
CompletedUpdateFilesOnly(results) == [resultFiles |-> Defined(Filenames(results))]

\* lines 54-57: the update of a job whose split succeeded
CompletedUpdate(results) ==
    [status |-> "completed", resultFiles |-> Defined(Filenames(results))]

\* lines 50-57: the split succeeded and the job is updated to completed
MarkCompleted(r) ==
    /\ req[r].pc = "awaitSplit"
    /\ call[r].pc = "returned"
    /\ call[r].result[1].success
    /\ pdfJobs' = updatePdfJob(pdfJobs, req[r].job[1],
                      CompletedUpdate(call[r].result[1].results))
    /\ req' = [req EXCEPT ![r] = [req[r] EXCEPT !.pc = "sendZip"]]
    /\ UNCHANGED <<instructions, parsed, call, lookup>>

\* the value of the Content-Disposition header of line 61
ContentDisposition(zipFilename) ==
    <<"attachment; filename=\"">> \o zipFilename \o <<"\"">>

\* the characters of the run that a header value may not hold: those that
\* are neither a tab nor in the ranges 0x20-0x7e and 0x80-0xff
InvalidHeaderChars == {"U+6587"}

\* res.setHeader's test of a header value
checkInvalidHeaderChar(value) ==
    \E k \in 1..Len(value) : value[k] \in InvalidHeaderChars

\* the message of the TypeError res.setHeader throws for such a value
HeaderErrorMessage == <<"Invalid character in header content [\"Content-Disposition\"]">>

\* lines 60-62, and lines 64-69 when res.setHeader throws: the error is caught
\* by the inner catch and the job is updated to failed
SendZip(r) ==
    /\ req[r].pc = "sendZip"
    /\ IF checkInvalidHeaderChar(ContentDisposition(call[r].result[1].zipFilename[1]))
       THEN /\ pdfJobs' = updatePdfJob(pdfJobs, req[r].job[1],
                              [status |-> "failed",
                               errorMessage |-> Defined(HeaderErrorMessage)])
            /\ req' = [req EXCEPT ![r] =
                          [req[r] EXCEPT !.pc = "rethrown",
                                         !.error = Defined(HeaderErrorMessage)]]
       ELSE /\ req' = [req EXCEPT ![r] =
                          Respond(req[r], ZipResponse(call[r].result[1].zipFilename,
                                                      call[r].result[1].zipBuffer))]
            /\ UNCHANGED pdfJobs
    /\ UNCHANGED <<instructions, parsed, call, lookup>>

\* an error thrown with the fallback message whatever the result says
ThrownMessageGeneric(result) == <<"Failed to split PDF">>

\* splitResult.error || "Failed to split PDF"
ThrownMessage(result) ==
    IF result.error = Undefined \/ result.error[1] = <<>>
    THEN <<"Failed to split PDF">>
    ELSE result.error[1]

\* lines 50-52 and 64-69: the split failed, the error is thrown and caught
\* and the job is updated to failed
MarkFailed(r) ==
    /\ req[r].pc = "awaitSplit"
    /\ call[r].pc = "returned"
    /\ ~call[r].result[1].success
    /\ LET message == ThrownMessage(call[r].result[1])
       IN  /\ pdfJobs' = updatePdfJob(pdfJobs, req[r].job[1],
                             [status |-> "failed", errorMessage |-> Defined(message)])
           /\ req' = [req EXCEPT ![r] =
                         [req[r] EXCEPT !.pc = "rethrown", !.error = Defined(message)]]
    /\ UNCHANGED <<instructions, parsed, call, lookup>>

\* lines 71-79: the error is thrown again and answered by the outer catch
RespondError(r) ==
    /\ req[r].pc = "rethrown"
    /\ req' = [req EXCEPT ![r] = Respond(req[r], JsonResponse(500, req[r].error[1]))]
    /\ UNCHANGED <<instructions, parsed, call, pdfJobs, lookup>>

Handle(r) ==
    \/ Receive(r)
    \/ ValidateRequest(r)
    \/ CreateJob(r)
    \/ CallSplit(r)
    \/ MarkCompleted(r)
    \/ SendZip(r)
    \/ MarkFailed(r)
    \/ RespondError(r)

----------------------------------------------------------------------------
(* The earlier handler of POST /api/split-pdf as built into dist/index.js, *)
(* with parseInstructions and splitPdf in the route file.  Its splitPdf    *)
(* throws where the current one returns a failure; a thrown Error is held  *)
(* in the activation as a failure with the Error's message.                *)

\* dist/index.js lines 99-122, the text of pdf-splitter.ts lines 32-59
InlineParseInstructions(s) == parseInstructions(s)

\* dist/index.js lines 124-125: PDFDocument.load(pdfBuffer), no option given
InlineLoad(c) ==
    /\ call[c].pc = "load"
    /\ call' = [call EXCEPT ![c] =
           IF ~call[c].pdfBuffer.loadable
           THEN Catch(call[c], LoadErrorMessage)
           ELSE IF call[c].pdfBuffer.encrypted
           THEN Catch(call[c], EncryptedErrorMessage)
           ELSE [call[c] EXCEPT !.pc = "validate",
                                !.pdfDoc = call[c].pdfBuffer.pages,
                                !.totalPages = Len(call[c].pdfBuffer.pages)]]
    /\ UNCHANGED <<instructions, parsed, req, pdfJobs, lookup>>

\* dist/index.js line 156: return results
InlineReturnResults(c) ==
    /\ call[c].pc = "archive"
    /\ call' = [call EXCEPT ![c] =
           Return(call[c], Success(call[c].results, Undefined, Undefined))]
    /\ UNCHANGED <<instructions, parsed, req, pdfJobs, lookup>>

\* dist/index.js lines 123-157; lines 126-155 are the text of pdf-splitter.ts
\* lines 91-128
InlineSplitStep(c) ==
    \/ InlineLoad(c)
    \/ Validate(c)
    \/ CreateDocument(c)
    \/ CopyPage(c)
    \/ Save(c)
    \/ InlineReturnResults(c)

\* dist/index.js lines 196-200: the inner catch updates the job to failed and
\* throws the error again
InlineFail(r, message) ==
    /\ pdfJobs' = updatePdfJob(pdfJobs, req[r].job[1],
                      [status |-> "failed", errorMessage |-> Defined(message)])
    /\ req' = [req EXCEPT ![r] =
                  [req[r] EXCEPT !.pc = "rethrown", !.error = Defined(message)]]

\* dist/index.js lines 180-181: the instructions are parsed and splitPdf is
\* called; an error thrown by the parser goes to the inner catch
InlineCallSplit(r) ==
    /\ req[r].pc = "split"
    /\ LET ranges == InlineParseInstructions(req[r].instructions[1])
       IN  IF ranges.threw
           THEN /\ InlineFail(r, ranges.message)
                /\ UNCHANGED call
           ELSE /\ call' = [call EXCEPT ![r] =
                       EnterSplitPdf(req[r].file[1].buffer, ranges.value,
                                     req[r].file[1].originalname, FALSE)]
                /\ req' = [req EXCEPT ![r] = [req[r] EXCEPT !.pc = "awaitSplit"]]
                /\ UNCHANGED pdfJobs
    /\ UNCHANGED <<instructions, parsed, lookup>>

\* dist/index.js lines 181 and 195-201: splitPdf threw
InlineSplitFailed(r) ==
    /\ req[r].pc = "awaitSplit"
    /\ call[r].pc = "returned"
    /\ ~call[r].result[1].success
    /\ InlineFail(r, call[r].result[1].error[1])
    /\ UNCHANGED <<instructions, parsed, call, lookup>>

\* dist/index.js lines 182-186: the archive is built from the results and
\* generated; generateAsync resolves or rejects
InlineGenerateZip(r) ==
    /\ req[r].pc = "awaitSplit"
    /\ call[r].pc = "returned"
    /\ call[r].result[1].success
    /\ \E generated \in BOOLEAN :
           IF generated
           THEN /\ req' = [req EXCEPT ![r] = [req[r] EXCEPT !.pc = "updateJob"]]
                /\ UNCHANGED pdfJobs
           ELSE InlineFail(r, ArchiveErrorMessage)
    /\ UNCHANGED <<instructions, parsed, call, lookup>>

\* dist/index.js lines 187-190
InlineMarkCompleted(r) ==
    /\ req[r].pc = "updateJob"
    /\ pdfJobs' = updatePdfJob(pdfJobs, req[r].job[1],
                      CompletedUpdate(call[r].result[1].results))
    /\ req' = [req EXCEPT ![r] = [req[r] EXCEPT !.pc = "sendZip"]]
    /\ UNCHANGED <<instructions, parsed, call, lookup>>

\* dist/index.js lines 191-194, and lines 195-201 when res.setHeader throws
InlineSendZip(r) ==
    /\ req[r].pc = "sendZip"
    /\ LET zipFilename == ZipFilename(PathName(req[r].file[1].originalname))
           zipBuffer   == ZipOf(call[r].result[1].results, <<>>)
       IN  IF checkInvalidHeaderChar(ContentDisposition(zipFilename))
           THEN InlineFail(r, HeaderErrorMessage)
           ELSE /\ req' = [req EXCEPT ![r] =
                              Respond(req[r], ZipResponse(Defined(zipFilename),
                                                          Defined(zipBuffer)))]
                /\ UNCHANGED pdfJobs
    /\ UNCHANGED <<instructions, parsed, call, lookup>>

\* dist/index.js lines 159-208 after the request is received; lines 161-178
\* and 202-207 are the text of routes.ts lines 17-39 and 74-79
InlineHandle(r) ==
    \/ ValidateRequest(r)
    \/ CreateJob(r)
    \/ InlineCallSplit(r)
    \/ InlineSplitFailed(r)
    \/ InlineGenerateZip(r)
    \/ InlineMarkCompleted(r)
    \/ InlineSendZip(r)
    \/ RespondError(r)

----------------------------------------------------------------------------
(* GET /api/job/:id, routes.ts *)

\* no GET answered yet
NoLookup == [id |-> "", status |-> 0, message |-> <<>>, body |-> Undefined]

\* the identifiers asked for: those randomUUID gives and one it never gives
JobIds == UUIDs \cup {"u0"}

\* storage.ts lines 53-55
getPdfJob(map, id) == IF id \in DOMAIN map THEN Defined(map[id]) ELSE Undefined

\* lines 83-93
GetJob(id) ==
    /\ LET job == getPdfJob(pdfJobs, id)
       IN  lookup' = IF job = Undefined
                     THEN [id |-> id, status |-> 404, message |-> <<"Job not found">>,
                           body |-> Undefined]
                     ELSE [id |-> id, status |-> 200, message |-> <<>>, body |-> job]
    /\ UNCHANGED <<instructions, parsed, call, req, pdfJobs>>

----------------------------------------------------------------------------
(* The server: the requests of Reqs arrive and are handled, their steps    *)
(* interleaved at the await points                                         *)

Init ==
    /\ instructions = <<>>
    /\ parsed = NotCalled
    /\ call = [c \in Callers |-> IdleCall]
    /\ req = [r \in Reqs |-> ComingRequest]
    /\ pdfJobs = <<>>
    /\ lookup = NoLookup

Next ==
    \/ \E r \in Reqs : Handle(r)
    \/ \E c \in Callers : SplitStep(c)

Spec == Init /\ [][Next]_vars

\* the server whose event loop runs every continuation that is ready: each
\* handler run and each activation goes on when the call it awaits returns.
\* The call of splitPdfFromInstructions is enabled exactly when the handler
\* run stands before it, and its weak fairness is written with that condition.
Fairness ==
    \A r \in Reqs :
        /\ WF_vars(req[r].pc # "split" /\ Handle(r))
        /\ ([]<>(req[r].pc # "split") \/ []<><<CallSplit(r)>>_vars)
        /\ WF_vars(SplitStep(r))

SpecFair == Spec /\ Fairness

\* the server with its job status route
NextJobs ==
    \/ Next
    \/ \E id \in JobIds : GetJob(id)

SpecJobs == Init /\ [][NextJobs]_vars

\* the request handled by the current handler, and the one handled by the
\* earlier handler
Current == "r1"

Earlier == "r2"

\* the uploads sent to both handlers: those of the server's run and an
\* encrypted PDF of MaxPages pages
EarlierUploads ==
    UploadedFiles \cup
        { Defined([mimetype |-> "application/pdf",
                   originalname |-> <<"r", ".", "p", "d", "f">>,
                   buffer |-> EncryptedDocument(MaxPages)]) }

\* one request is sent to the current handler and to the earlier one
ReceiveBoth ==
    /\ \A r \in Reqs : req[r].pc = "coming"
    /\ \E file \in EarlierUploads, instr \in InstructionFields :
           req' = [r \in Reqs |->
                      [req[r] EXCEPT !.pc = "validate", !.file = file,
                                     !.instructions = instr]]
    /\ UNCHANGED <<instructions, parsed, call, pdfJobs, lookup>>

\* routes.ts lines 15-80 after the request is received
HandleReceived(r) ==
    \/ ValidateRequest(r)
    \/ CreateJob(r)
    \/ CallSplit(r)
    \/ MarkCompleted(r)
    \/ SendZip(r)
    \/ MarkFailed(r)
    \/ RespondError(r)

NextEarlier ==
    \/ ReceiveBoth
    \/ HandleReceived(Current)
    \/ SplitStep(Current)
    \/ InlineHandle(Earlier)
    \/ InlineSplitStep(Earlier)

\* the current handler and the earlier one, each given the same request
SpecEarlier == Init /\ [][NextEarlier]_vars

----------------------------------------------------------------------------
(* splitPdf called directly, with groups that need not come from the       *)
(* parser                                                                  *)

\* the page numbers a direct caller passes: 0 up to one past the longest source
PageNumbers == 0..(MaxPages + 1)

\* the groups a direct caller passes: one page, or two neighbouring pages in
\* either order
GroupPool ==
    {<<p>> : p \in PageNumbers}
        \cup {<<p, p + 1>> : p \in 0..MaxPages}
        \cup {<<p + 1, p>> : p \in 0..MaxPages}

RangeLists == UNION {[1..n -> GroupPool] : n \in 0..MaxGroups}

SourceBuffers == {SourceDocument(n) : n \in 1..MaxPages} \cup {NotADocument}

FileNames ==
    { <<"r", ".", "p", "d", "f">>,
      <<"a", ".", "b", ".", "p", "d", "f">>,
      <<"r">> }

InitSplit ==
    /\ instructions = <<>>
    /\ parsed = NotCalled
    /\ \E pdfBuffer \in SourceBuffers, ranges \in RangeLists,
          originalFilename \in FileNames, returnZip \in BOOLEAN :
           call = [c \in Callers |->
                      IF c = Lib
                      THEN EnterSplitPdf(pdfBuffer, ranges, originalFilename, returnZip)
                      ELSE IdleCall]
    /\ req = [r \in Reqs |-> NoRequest]
    /\ pdfJobs = <<>>
    /\ lookup = NoLookup

NextSplit == \E c \in Callers : SplitStep(c)

SpecSplit == InitSplit /\ [][NextSplit]_vars

\* the server, or a direct call of splitPdf
SpecAll == (Init \/ InitSplit) /\ [][Next]_vars

----------------------------------------------------------------------------
(* The parser applied to every instruction string of at most MaxLen        *)
(* characters                                                              *)

InitParse ==
    /\ instructions \in Strings(MaxLen)
    /\ parsed = NotCalled
    /\ call = [c \in Callers |-> IdleCall]
    /\ req = [r \in Reqs |-> NoRequest]
    /\ pdfJobs = <<>>
    /\ lookup = NoLookup

Parse ==
    /\ ~parsed.called
    /\ parsed' = [called |-> TRUE] @@ parseInstructions(instructions)
    /\ UNCHANGED <<instructions, call, req, pdfJobs, lookup>>

NextParse == Parse

SpecParse == InitParse /\ [][NextParse]_vars

----------------------------------------------------------------------------
(* The instruction grammar, read off the string by position: tokens are    *)
(* the stretches between commas, stripped of the white space around them   *)

Min(S) == CHOOSE x \in S : \A y \in S : x <= y

Max(S) == CHOOSE x \in S : \A y \in S : x >= y

CommaPositions(s) == {i \in 1..Len(s) : s[i] = ","}

TokenCount(s) == Cardinality(CommaPositions(s)) + 1

\* the position of the k-th comma, 0 before the first token and Len(s) + 1
\* after the last
CommaPosition(s, k) ==
    IF k = 0 THEN 0
    ELSE IF k > Cardinality(CommaPositions(s)) THEN Len(s) + 1
    ELSE CHOOSE i \in CommaPositions(s) :
             Cardinality({j \in CommaPositions(s) : j <= i}) = k

Stripped(t) ==
    LET solid == {i \in 1..Len(t) : t[i] # " "}
    IN  IF solid = {} THEN <<>> ELSE SubSeq(t, Min(solid), Max(solid))

Token(s, k) ==
    Stripped(SubSeq(s, CommaPosition(s, k - 1) + 1, CommaPosition(s, k) - 1))

TokenIndices(s) == 1..TokenCount(s)

DashPositions(t) == {i \in 1..Len(t) : t[i] = "-"}

HasDash(t) == DashPositions(t) # {}

\* an integer literal: one or more decimal digits and nothing else
IsLiteral(t) == t # <<>> /\ \A i \in 1..Len(t) : t[i] \in DecDigits

RECURSIVE LiteralValue(_)
LiteralValue(t) ==
    IF t = <<>> THEN 0
    ELSE 10 * LiteralValue(SubSeq(t, 1, Len(t) - 1)) + DigitValue(t[Len(t)])

\* a range literal A-B: two integer literals around a single dash
IsRangeLiteral(t) ==
    \E d \in DashPositions(t) :
        IsLiteral(SubSeq(t, 1, d - 1)) /\ IsLiteral(SubSeq(t, d + 1, Len(t)))

LiteralA(t) == LiteralValue(SubSeq(t, 1, Min(DashPositions(t)) - 1))

LiteralB(t) == LiteralValue(SubSeq(t, Min(DashPositions(t)) + 1, Len(t)))

ValidToken(t) ==
    \/ IsLiteral(t) /\ LiteralValue(t) >= 1
    \/ IsRangeLiteral(t) /\ 1 <= LiteralA(t) /\ LiteralA(t) <= LiteralB(t)

ValidInstructions(s) == \A k \in TokenIndices(s) : ValidToken(Token(s, k))

\* g is the run a, a+1, ..., b
IsRun(g, a, b) ==
    /\ Len(g) = b - a + 1
    /\ g[1] = a
    /\ \A i \in 2..Len(g) : g[i] = g[i - 1] + 1

\* the pages of the first k tokens of a valid string, read left to right
RECURSIVE ReadPages(_, _)
ReadPages(s, k) ==
    IF k = 0 THEN <<>>
    ELSE LET t == Token(s, k)
         IN  ReadPages(s, k - 1) \o
             (IF IsLiteral(t) THEN <<LiteralValue(t)>>
              ELSE [i \in 1..(LiteralB(t) - LiteralA(t) + 1) |-> LiteralA(t) + i - 1])

RECURSIVE Flatten(_)
Flatten(groups) ==
    IF groups = <<>> THEN <<>> ELSE Head(groups) \o Flatten(Tail(groups))

\* the two endpoints the code reads from a token with a dash: the text before
\* the first dash and the text between the first dash and the next one
FirstPiece(t) == SubSeq(t, 1, Min(DashPositions(t)) - 1)

SecondPiece(t) ==
    LET first == Min(DashPositions(t))
        later == {d \in DashPositions(t) : d > first}
        stop  == IF later = {} THEN Len(t) + 1 ELSE Min(later)
    IN  SubSeq(t, first + 1, stop - 1)

\* "parses as an integer" is JavaScript's parseInt on the stripped endpoint
RangeFails(t) ==
    LET a == parseInt(Stripped(FirstPiece(t)))
        b == parseInt(Stripped(SecondPiece(t)))
    IN  a.nan \/ b.nan \/ a.val > b.val \/ a.val < 1

PageFails(t) == LET p == parseInt(t) IN p.nan \/ p.val < 1

TokenFails(t) == IF HasDash(t) THEN RangeFails(t) ELSE PageFails(t)

\* the parser gets as far as token k: no token before it fails
ReachesToken(s, k) == \A j \in 1..(k - 1) : ~TokenFails(Token(s, j))

----------------------------------------------------------------------------
(* Claims about parseInstructions, checked under SpecParse *)

\* C1: for every valid instruction string parseInstructions returns one group
\* per comma-separated token, in token order, [N] for a page token N and the
\* run A..B for a range token A-B; the groups flattened are the page list
\* read left to right from the string.
C1_OneGroupPerToken ==
    (parsed.called /\ ValidInstructions(instructions)) =>
        /\ ~parsed.threw
        /\ Len(parsed.value) = TokenCount(instructions)
        /\ \A k \in TokenIndices(instructions) :
               LET t == Token(instructions, k)
               IN  IF IsLiteral(t)
                   THEN parsed.value[k] = <<LiteralValue(t)>>
                   ELSE IsRun(parsed.value[k], LiteralA(t), LiteralB(t))
        /\ Flatten(parsed.value) = ReadPages(instructions, TokenCount(instructions))

\* a valid string with a page token and a proper range token has been parsed
C1_Witness ==
    /\ parsed.called
    /\ ValidInstructions(instructions)
    /\ \E k \in TokenIndices(instructions) : IsLiteral(Token(instructions, k))
    /\ \E k \in TokenIndices(instructions) :
           /\ IsRangeLiteral(Token(instructions, k))
           /\ LiteralA(Token(instructions, k)) < LiteralB(Token(instructions, k))

\* C2: a token with a dash whose endpoints do not both parse as integers, or
\* whose start exceeds its end, or whose start is below 1, makes
\* parseInstructions fail with "Invalid range: " followed by the token as it
\* stood after the outer trim (inner white space kept).
C2_InvalidRange ==
    parsed.called =>
        \A k \in TokenIndices(instructions) :
            LET t == Token(instructions, k)
            IN  (ReachesToken(instructions, k) /\ HasDash(t) /\ RangeFails(t)) =>
                    /\ parsed.threw
                    /\ parsed.message = <<"Invalid range: ">> \o t

\* a failing range token that holds inner white space has been reported
C2_Witness ==
    /\ parsed.called
    /\ parsed.threw
    /\ \E k \in TokenIndices(instructions) :
           LET t == Token(instructions, k)
           IN  /\ ReachesToken(instructions, k)
               /\ HasDash(t)
               /\ RangeFails(t)
               /\ includes(t, " ")
               /\ k > 1

\* C3: a token without a dash makes parseInstructions fail with
\* "Invalid page number: " followed by the token unless it parses as an
\* integer >= 1; an empty token gives the message with nothing after the
\* colon and space; a string none of whose tokens fails is accepted.
C3_InvalidPageNumber ==
    parsed.called =>
        /\ \A k \in TokenIndices(instructions) :
               LET t == Token(instructions, k)
               IN  (ReachesToken(instructions, k) /\ ~HasDash(t) /\ PageFails(t)) =>
                       /\ parsed.threw
                       /\ parsed.message = <<"Invalid page number: ">> \o t
        /\ (\E k \in TokenIndices(instructions) :
                ReachesToken(instructions, k) /\ Token(instructions, k) = <<>>)
               => parsed.message = <<"Invalid page number: ">>
        /\ (\A k \in TokenIndices(instructions) : ~TokenFails(Token(instructions, k)))
               => ~parsed.threw

\* the empty token after a trailing comma has been reported
C3_Witness ==
    /\ parsed.called
    /\ TokenCount(instructions) >= 2
    /\ Token(instructions, 1) # <<>>
    /\ Token(instructions, TokenCount(instructions)) = <<>>
    /\ ReachesToken(instructions, TokenCount(instructions))
    /\ parsed.message = <<"Invalid page number: ">>

\* C4: parseInstructions fails for every instruction string with a token
\* that, trimmed, is neither an integer literal nor a range literal A-B of
\* two integer literals.
C4_MalformedTokenRejected ==
    (/\ parsed.called
     /\ \E k \in TokenIndices(instructions) :
            LET t == Token(instructions, k)
            IN  ~IsLiteral(t) /\ ~IsRangeLiteral(t))
        => parsed.threw

----------------------------------------------------------------------------
(* Claims about splitPdf *)

\* the activation of caller c has returned
HasReturned(c) == call[c].pc = "returned"

ResultOf(c) == call[c].result[1]

\* the page count of the source of caller c, when it is a document
SourcePages(c) == Len(call[c].pdfBuffer.pages)

\* the page numbers of caller c's groups in scan order: the groups in order
\* and each group's pages in order
ScanOrder(c) == Flatten(call[c].ranges)

\* the positions of the scan whose page number lies beyond the source
Beyond(c) == {k \in 1..Len(ScanOrder(c)) : ScanOrder(c)[k] > SourcePages(c)}

FirstBeyond(c) == ScanOrder(c)[Min(Beyond(c))]

DoesNotExist(p, n) ==
    <<"Page ">> \o NumberToString(p) \o <<" does not exist. PDF has ">>
        \o NumberToString(n) \o <<" pages.">>

\* C5: for a source of totalPages pages and any list of groups, splitPdf
\* checks every index of every group before it creates any output document;
\* if some index exceeds totalPages it fails with 'Page <p> does not exist.
\* PDF has <totalPages> pages.', p being the first such index in scan order.
C5_ValidatedBeforeOutput ==
    \A c \in Callers :
        call[c].pdfBuffer.loadable =>
            /\ call[c].created > 0 => Beyond(c) = {}
            /\ (HasReturned(c) /\ Beyond(c) # {}) =>
                   /\ ~ResultOf(c).success
                   /\ ResultOf(c).error =
                          Defined(DoesNotExist(FirstBeyond(c), SourcePages(c)))
                   /\ call[c].created = 0

\* a call has failed on a list whose first group is within bounds and whose
\* later group holds two pages beyond the source, the larger one second
C5_Witness ==
    /\ HasReturned(Lib)
    /\ call[Lib].pdfBuffer.loadable
    /\ Len(call[Lib].ranges) = 2
    /\ \A k \in 1..Len(call[Lib].ranges[1]) :
           call[Lib].ranges[1][k] \in 1..SourcePages(Lib)
    /\ Cardinality(Beyond(Lib)) = 2
    /\ FirstBeyond(Lib) < ScanOrder(Lib)[Max(Beyond(Lib))]
    /\ ~ResultOf(Lib).success
    /\ call[Lib].created = 0

\* C6 as stated: for a source of N pages, split fails with 'Page <N+1> does
\* not exist. PDF has <N> pages.' whenever any group references page N+1, and
\* performs no partial output.
C6_Original ==
    \A c \in Callers :
        (/\ HasReturned(c)
         /\ call[c].pdfBuffer.loadable
         /\ \E k \in 1..Len(ScanOrder(c)) : ScanOrder(c)[k] = SourcePages(c) + 1)
            => /\ ~ResultOf(c).success
               /\ ResultOf(c).results = <<>>
               /\ ResultOf(c).error =
                      Defined(DoesNotExist(SourcePages(c) + 1, SourcePages(c)))

\* C6 amended: whenever any group references page N+1 the split fails with no
\* output at all (no results, no archive, no document created); the message
\* names page N+1 when no page number above N+1 comes before the first N+1
\* in scan order, and otherwise names the first page number above N.
C6_Amended ==
    \A c \in Callers :
        (/\ HasReturned(c)
         /\ call[c].pdfBuffer.loadable
         /\ \E k \in 1..Len(ScanOrder(c)) : ScanOrder(c)[k] = SourcePages(c) + 1)
            => LET n     == SourcePages(c)
                   first == Min({k \in 1..Len(ScanOrder(c)) : ScanOrder(c)[k] = n + 1})
                   above == {k \in 1..(first - 1) : ScanOrder(c)[k] > n + 1}
               IN  /\ ~ResultOf(c).success
                   /\ ResultOf(c).results = <<>>
                   /\ ResultOf(c).zipBuffer = Undefined
                   /\ call[c].created = 0
                   /\ above = {} =>
                          ResultOf(c).error = Defined(DoesNotExist(n + 1, n))
                   /\ above # {} =>
                          ResultOf(c).error =
                              Defined(DoesNotExist(ScanOrder(c)[Min(above)], n))

\* a call whose second group references page N+1, after a first group within
\* bounds, has failed naming page N+1
C6_Witness ==
    /\ HasReturned(Lib)
    /\ call[Lib].pdfBuffer.loadable
    /\ Len(call[Lib].ranges) = 2
    /\ \A k \in 1..Len(call[Lib].ranges[1]) :
           call[Lib].ranges[1][k] \in 1..SourcePages(Lib)
    /\ \E k \in 1..Len(call[Lib].ranges[2]) :
           call[Lib].ranges[2][k] = SourcePages(Lib) + 1
    /\ ResultOf(Lib).error =
           Defined(DoesNotExist(SourcePages(Lib) + 1, SourcePages(Lib)))

\* the positions of the scan whose page number is below 1 or beyond the source
OutOfRange(c) == {k \in 1..Len(ScanOrder(c)) : ScanOrder(c)[k] \notin 1..SourcePages(c)}

\* C7: splitPdf enforces the lower bound too: with a group that contains an
\* index below 1 it fails with 'Page <p> does not exist. PDF has <totalPages>
\* pages.' and never reaches the page copy with a negative 0-based index.
C7_LowerBoundEnforced ==
    \A c \in Callers :
        /\ \A k \in 1..Len(call[c].copied) : call[c].copied[k] >= 0
        /\ (/\ HasReturned(c)
            /\ call[c].pdfBuffer.loadable
            /\ \E k \in 1..Len(ScanOrder(c)) : ScanOrder(c)[k] < 1)
               => /\ ~ResultOf(c).success
                  /\ \E k \in OutOfRange(c) :
                         ResultOf(c).error =
                             Defined(DoesNotExist(ScanOrder(c)[k], SourcePages(c)))

\* C8: whenever a step of a split fails (parse, load, page validation, page
\* copy, archive), the result has success = false, no results, no zip buffer
\* and no zip filename, and the handler sends no zip body: a response is the
\* whole archive of a successful split, or an error.
C8_NoPartialOutput ==
    /\ \A c \in Callers :
           (HasReturned(c) /\ ~ResultOf(c).success) =>
               /\ ResultOf(c).results = <<>>
               /\ ResultOf(c).zipBuffer = Undefined
               /\ ResultOf(c).zipFilename = Undefined
               /\ ResultOf(c).error # Undefined
    /\ \A r \in Reqs :
           \A k \in 1..Len(req[r].responses) :
               LET response == req[r].responses[k]
               IN  /\ (HasReturned(r) /\ ~ResultOf(r).success)
                          => response.contentType = "application/json"
                   /\ IF response.contentType = "application/zip"
                      THEN /\ HasReturned(r)
                           /\ ResultOf(r).success
                           /\ response.body = ResultOf(r).zipBuffer
                           /\ response.body # Undefined
                           /\ Len(ResultOf(r).results) = Len(call[r].ranges)
                           /\ \A g \in 1..Len(ResultOf(r).results) :
                                  \E e \in 1..Len(response.body[1]) :
                                      response.body[1][e].name =
                                          ResultOf(r).results[g].filename
                      ELSE /\ response.contentType = "application/json"
                           /\ response.body = Undefined
                           /\ response.filename = Undefined

\* a request whose document has two groups ended without an archive because
\* the archive could not be generated after both outputs had been built
C8_Witness ==
    \E r \in Reqs :
        /\ req[r].pc = "done"
        /\ HasReturned(r)
        /\ Len(call[r].results) = 2
        /\ ~ResultOf(r).success
        /\ ResultOf(r).error = Defined(ArchiveErrorMessage)
        /\ req[r].responses = <<JsonResponse(500, ArchiveErrorMessage)>>

\* the file name without its final extension: everything before its last dot
WithoutExtension(f) ==
    LET dots == {i \in 1..Len(f) : f[i] = "."}
    IN  IF dots = {} THEN f ELSE SubSeq(f, 1, Max(dots) - 1)

\* C9: in a successful split the output of a group of exactly one page N
\* (also one written as the range N-N) is named '<stem>-page-<N>.pdf' and
\* that of any other group '<stem>-pages-<first>-<last>.pdf', stem being
\* originalFilename without its final extension and first and last the
\* group's first and last elements; the archive is named '<stem>-split.zip'.
C9_OutputFilenames ==
    \A c \in Callers :
        (HasReturned(c) /\ ResultOf(c).success) =>
            LET stem == WithoutExtension(call[c].originalFilename)
            IN  /\ \A g \in 1..Len(ResultOf(c).results) :
                       LET group == call[c].ranges[g]
                       IN  ResultOf(c).results[g].filename =
                               IF Len(group) = 1
                               THEN stem \o <<"-page-">> \o NumberToString(group[1])
                                        \o <<".pdf">>
                               ELSE stem \o <<"-pages-">> \o NumberToString(group[1])
                                        \o <<"-">> \o NumberToString(group[Len(group)])
                                        \o <<".pdf">>
                /\ call[c].returnZip =>
                       ResultOf(c).zipFilename = Defined(stem \o <<"-split.zip">>)

\* a request with the instructions "2-2" has succeeded
C9_Witness ==
    \E r \in Reqs :
        /\ req[r].instructions = Defined(<<"2", "-", "2">>)
        /\ HasReturned(r)
        /\ ResultOf(r).success
        /\ Len(ResultOf(r).results) = 1
        /\ ResultOf(r).zipFilename # Undefined

\* C10: a successful splitPdf returns one result per group, in the order of
\* the groups: results.length = ranges.length, results[i].pages = ranges[i]
\* and results[i].size is the byte length of results[i].data.
C10_OneResultPerGroup ==
    \A c \in Callers :
        (HasReturned(c) /\ ResultOf(c).success) =>
            /\ Len(ResultOf(c).results) = Len(call[c].ranges)
            /\ \A g \in 1..Len(ResultOf(c).results) :
                   /\ ResultOf(c).results[g].pages = call[c].ranges[g]
                   /\ ResultOf(c).results[g].size = Len(ResultOf(c).results[g].data)

\* a call with two different groups has succeeded
C10_Witness ==
    /\ HasReturned(Lib)
    /\ ResultOf(Lib).success
    /\ Len(call[Lib].ranges) = 2
    /\ call[Lib].ranges[1] # call[Lib].ranges[2]
    /\ Len(call[Lib].ranges[1]) = 2

----------------------------------------------------------------------------
(* Claims about the archive, the output documents and the requests *)

\* the responses of request r that carry an archive
ZipResponses(r) ==
    {k \in 1..Len(req[r].responses) :
        req[r].responses[k].contentType = "application/zip"}

\* C11: for every successful request the archive holds exactly one entry per
\* page group, named by the output filename and in group order; the entry
\* count equals the group count also when two tokens select the same pages
\* ('1-3,1-3', '3,3-3').
C11_OneEntryPerGroup ==
    \A r \in Reqs :
        \A k \in ZipResponses(r) :
            LET entries == req[r].responses[k].body[1]
            IN  /\ Len(entries) = Len(call[r].ranges)
                /\ \A g \in 1..Len(entries) :
                       entries[g].name = ResultOf(r).results[g].filename

\* the pages held by the bytes of a saved document
PagesOfBytes(data) == SubSeq(data, 2, Len(data) - 1)

\* the pages the source of caller c holds at the 0-based positions p - 1,
\* for the page numbers p of group in the group's order
PagesAt(c, group) ==
    [k \in 1..Len(group) |-> call[c].pdfBuffer.pages[(group[k] - 1) + 1]]

\* C12: for every group of a successful split, the output document consists
\* of exactly the source pages at the 0-based positions p-1 for each p of the
\* group, in the group's order and with the group's length; the pages of the
\* source document are not changed by the split.
C12_OutputPages ==
    \A c \in Callers :
        /\ call[c].pc \in {"validate", "create", "copy", "save", "archive"}
               => call[c].pdfDoc = call[c].pdfBuffer.pages
        /\ (HasReturned(c) /\ ResultOf(c).success) =>
               /\ call[c].pdfDoc = call[c].pdfBuffer.pages
               /\ \A g \in 1..Len(call[c].ranges) :
                      LET pages == PagesOfBytes(ResultOf(c).results[g].data)
                      IN  /\ Len(pages) = Len(call[c].ranges[g])
                          /\ \A k \in 1..Len(call[c].ranges[g]) :
                                 call[c].ranges[g][k] \in 1..SourcePages(c)
                          /\ pages = PagesAt(c, call[c].ranges[g])

\* a successful activation with a group of two pages in descending order
C12_Witness ==
    \E c \in Callers :
        /\ HasReturned(c)
        /\ ResultOf(c).success
        /\ \E g \in 1..Len(call[c].ranges) :
               /\ call[c].ranges[g] = <<2, 1>>
               /\ PagesOfBytes(ResultOf(c).results[g].data) =
                      <<PageContent(2), PageContent(1)>>

\* the pages of the outputs of caller c, concatenated in group order
ConcatenatedOutputs(c) ==
    Flatten([g \in 1..Len(ResultOf(c).results) |->
                PagesOfBytes(ResultOf(c).results[g].data)])

\* the groups of caller c are what a valid instruction string gives: each an
\* ascending run of page numbers from 1 on
GroupsOfValidInstructions(c) ==
    \A g \in 1..Len(call[c].ranges) :
        LET group == call[c].ranges[g]
        IN  /\ Len(group) >= 1
            /\ group[1] >= 1
            /\ IsRun(group, group[1], group[Len(group)])

\* the groups of caller c cover every page 1..N of the source exactly once
CoversEveryPageOnce(c) ==
    /\ Len(ScanOrder(c)) = SourcePages(c)
    /\ \A p \in 1..SourcePages(c) : \E k \in 1..Len(ScanOrder(c)) : ScanOrder(c)[k] = p

ArchiveFailed(r) == ResultOf(r).error = Defined(ArchiveErrorMessage)

\* requests a and b call split with identical source, instructions and
\* original filename
IdenticalInputs(a, b) ==
    /\ req[a].file = req[b].file
    /\ req[a].instructions = req[b].instructions

\* C14: two calls of split with identical source, instructions and original
\* filename have the same outcome (both succeed, or both fail with the same
\* message) and, on success, the same output filenames and the same page
\* content per output, whatever the first call left behind; a rejection of
\* the archive generation by the runtime is no part of the inputs.
C14_Deterministic ==
    \A a, b \in Reqs :
        (/\ a # b
         /\ HasReturned(a)
         /\ HasReturned(b)
         /\ IdenticalInputs(a, b)
         /\ ~ArchiveFailed(a)
         /\ ~ArchiveFailed(b))
            => /\ ResultOf(a).success = ResultOf(b).success
               /\ ResultOf(a).error = ResultOf(b).error
               /\ Len(ResultOf(a).results) = Len(ResultOf(b).results)
               /\ \A g \in 1..Len(ResultOf(a).results) :
                      /\ ResultOf(a).results[g].filename = ResultOf(b).results[g].filename
                      /\ ResultOf(a).results[g].data = ResultOf(b).results[g].data
               /\ ResultOf(a) = ResultOf(b)

\* two requests with the same document and instructions whose calls both
\* returned successfully with two outputs
C14_Witness ==
    \E a, b \in Reqs :
        /\ a # b
        /\ HasReturned(a)
        /\ HasReturned(b)
        /\ IdenticalInputs(a, b)
        /\ ResultOf(a).success
        /\ ResultOf(b).success
        /\ Len(ResultOf(b).results) = 2

\* C15: a job record is created with status 'processing' and is mutated
\* once, to 'completed' or to 'failed'; once it is 'completed' or 'failed' no
\* later step of the handler changes it again.
C15_MutatedOnce ==
    [][\A id \in DOMAIN pdfJobs' :
           IF id \notin DOMAIN pdfJobs
           THEN pdfJobs'[id].status = "processing"
           ELSE pdfJobs[id].status \in {"completed", "failed"}
                    => pdfJobs'[id] = pdfJobs[id]]_vars

\* request r has arrived and fails the input validation: no file, a MIME type
\* other than application/pdf, or instructions missing or empty
ShouldReject(r) ==
    /\ req[r].pc # "coming"
    /\ \/ req[r].file = Undefined
       \/ req[r].file[1].mimetype # "application/pdf"
       \/ req[r].instructions = Undefined
       \/ req[r].instructions[1] = <<>>

\* the split of request r failed on its instructions or on a page beyond the
\* document: 'Invalid range: ..', 'Invalid page number: ..' or
\* 'Page .. does not exist. PDF has .. pages.'
SplitValidationFailed(r) ==
    /\ HasReturned(r)
    /\ ~ResultOf(r).success
    /\ ResultOf(r).error[1][1] \in {"Invalid range: ", "Invalid page number: ", "Page "}

\* C16: POST /api/split-pdf answers 400 for every validation failure (missing
\* file, wrong MIME type, empty instructions, malformed instructions, pages
\* out of range) and 500 only for unexpected processing failures.
C16_ValidationFailures400 ==
    \A r \in Reqs :
        \A k \in 1..Len(req[r].responses) :
            LET response == req[r].responses[k]
            IN  response.contentType = "application/json" =>
                    /\ response.status \in {400, 500}
                    /\ response.status = 400
                           <=> (ShouldReject(r) \/ SplitValidationFailed(r))

\* the job records are those of the requests that passed the input validation
JobsOfAcceptedRequests ==
    /\ \A id \in DOMAIN pdfJobs :
           \E r \in Reqs : req[r].job = Defined(id) /\ ~ShouldReject(r)
    /\ \A r \in Reqs :
           ShouldReject(r) =>
               /\ req[r].job = Undefined
               /\ call[r] = IdleCall
               /\ req[r].pc \in {"validate", "done"}
               /\ req[r].pc = "done" =>
                      /\ Len(req[r].responses) = 1
                      /\ req[r].responses[1].status = 400

\* C17: a request rejected by input validation (no file, MIME type other than
\* application/pdf, missing or empty instructions) leaves the job store
\* unchanged, no record created or modified, and runs neither the parser nor
\* the splitter: the records are those of accepted requests, and the steps of
\* a rejected request change neither the store nor any activation.
C17_RejectedLeavesStore ==
    /\ []JobsOfAcceptedRequests
    /\ [][\A r \in Reqs :
              (ShouldReject(r) /\ req'[r] # req[r])
                  => (pdfJobs' = pdfJobs /\ call' = call)]_vars

\* one request was rejected for its empty instructions while the other one's
\* job is in the store
C17_Witness ==
    \E r, o \in Reqs :
        /\ req[r].pc = "done"
        /\ req[r].file # Undefined
        /\ req[r].file[1].mimetype = "application/pdf"
        /\ req[r].instructions = Defined(<<>>)
        /\ req[r].responses = <<JsonResponse(400, <<"Invalid instructions">>)>>
        /\ req[o].job # Undefined
        /\ DOMAIN pdfJobs = {req[o].job[1]}

\* the job record of request r
JobOf(r) == pdfJobs[req[r].job[1]]

\* request r failed after its job was created: it has a job and was answered
\* with an error
FailedAfterCreation(r) ==
    /\ req[r].pc = "done"
    /\ req[r].job # Undefined
    /\ req[r].responses[1].contentType = "application/json"

\* the message captured for the failure of request r: the error of the split
\* when the split failed, otherwise that of the failed header write
CapturedMessage(r) ==
    IF ~ResultOf(r).success THEN ResultOf(r).error[1] ELSE HeaderErrorMessage

\* C18: for every failure after job creation (parse error, page-range error,
\* unloadable document, archive failure) the job record ends with status
\* 'failed' and an errorMessage equal to the captured message, and the
\* response body carries that same message; a page 9 asked of a 2-page source
\* ends with 'Page 9 does not exist. PDF has 2 pages.' in both places.
C18_FailureReported ==
    \A r \in Reqs :
        /\ (req[r].pc = "done" /\ HasReturned(r) /\ ~ResultOf(r).success)
               => FailedAfterCreation(r)
        /\ FailedAfterCreation(r) =>
               /\ HasReturned(r)
               /\ Len(req[r].responses) = 1
               /\ JobOf(r).status = "failed"
               /\ JobOf(r).errorMessage = Defined(CapturedMessage(r))
               /\ req[r].responses[1].message = CapturedMessage(r)
               /\ (req[r].instructions = Defined(<<"9">>) /\ req[r].file[1].buffer.loadable)
                      => CapturedMessage(r) = DoesNotExist(9, SourcePages(r))

\* two requests failed after their jobs were created: one on its instructions
\* or on a page beyond the source, the other on its document or its archive
C18_Witness ==
    \E r, o \in Reqs :
        /\ FailedAfterCreation(r)
        /\ FailedAfterCreation(o)
        /\ r # o
        /\ JobOf(r).errorMessage \in
               {Defined(DoesNotExist(9, 2)), Defined(RangeErrorMessage(<<"2", "-", "1">>))}
        /\ JobOf(o).errorMessage \in
               {Defined(LoadErrorMessage), Defined(ArchiveErrorMessage)}

\* request r was successful: it was answered with the archive
Successful(r) ==
    /\ req[r].pc = "done"
    /\ req[r].responses[1].contentType = "application/zip"

\* the output filename of a group, as the naming rule gives it
ExpectedName(stem, group) ==
    IF Len(group) = 1
    THEN stem \o <<"-page-">> \o NumberToString(group[1]) \o <<".pdf">>
    ELSE stem \o <<"-pages-">> \o NumberToString(group[1]) \o <<"-">>
             \o NumberToString(group[Len(group)]) \o <<".pdf">>

\* C19: for every successful request the job record ends with status
\* 'completed', errorMessage null and resultFiles equal to the output
\* filenames in group order, one per group, and the response is the zip with
\* Content-Disposition filename '<stem>-split.zip'; '1-2,1' on r.pdf gives
\* resultFiles [r-pages-1-2.pdf, r-page-1.pdf].
C19_CompletedJob ==
    \A r \in Reqs :
        Successful(r) =>
            LET stem   == WithoutExtension(req[r].file[1].originalname)
                groups == call[r].ranges
            IN  /\ JobOf(r).status = "completed"
                /\ JobOf(r).errorMessage = Null
                /\ JobOf(r).resultFiles # Null
                /\ Len(JobOf(r).resultFiles[1]) = Len(groups)
                /\ \A g \in 1..Len(groups) :
                       /\ JobOf(r).resultFiles[1][g] = ExpectedName(stem, groups[g])
                       /\ JobOf(r).resultFiles[1][g] = ResultOf(r).results[g].filename
                /\ Len(req[r].responses) = 1
                /\ req[r].responses[1].status = 200
                /\ req[r].responses[1].filename = Defined(stem \o <<"-split.zip">>)

\* the request '1-2,1' on r.pdf was answered with r-split.zip and its job
\* lists r-pages-1-2.pdf and r-page-1.pdf
C19_Witness ==
    \E r \in Reqs :
        /\ Successful(r)
        /\ req[r].instructions = Defined(<<"1", "-", "2", ",", "1">>)
        /\ JobOf(r).resultFiles =
               Defined(<< <<"r", "-pages-", "1", "-", "2", ".pdf">>,
                          <<"r", "-page-", "1", ".pdf">> >>)
        /\ req[r].responses[1].filename = Defined(<<"r", "-split.zip">>)

\* every record is stored under its own identifier, and the jobs of two
\* requests have two identifiers
StoredUnderOwnId ==
    /\ \A id \in DOMAIN pdfJobs : pdfJobs[id].id = id
    /\ \A r \in Reqs : req[r].job # Undefined => req[r].job[1] \in DOMAIN pdfJobs
    /\ \A r, o \in Reqs :
           (r # o /\ req[r].job # Undefined /\ req[o].job # Undefined)
               => req[r].job[1] # req[o].job[1]

\* a step creates records only under identifiers not in use and deletes none,
\* and a GET answered in the step gives the record of a created identifier
\* and 404 'Job not found' for any other
StoreStep ==
    /\ DOMAIN pdfJobs \subseteq DOMAIN pdfJobs'
    /\ \A r \in Reqs :
           (req[r].job = Undefined /\ req'[r].job # Undefined)
               => /\ req'[r].job[1] \notin DOMAIN pdfJobs
                  /\ req'[r].job[1] \in DOMAIN pdfJobs'
    /\ lookup' # lookup =>
           IF lookup'.id \in DOMAIN pdfJobs
           THEN /\ lookup'.status = 200
                /\ lookup'.body = Defined(pdfJobs[lookup'.id])
           ELSE /\ lookup'.status = 404
                /\ lookup'.message = <<"Job not found">>
                /\ lookup'.body = Undefined

\* C20: every created job gets an identifier distinct from all existing ones
\* and is stored under it; after any sequence of create and update operations
\* GET /api/job/:id returns 200 with the record for every identifier ever
\* created, records never being deleted, and 404 'Job not found' for every
\* other identifier.
C20_JobStore ==
    /\ []StoredUnderOwnId
    /\ [][StoreStep]_vars

\* both requests have their jobs in the store, the last GET was answered with
\* the record of a job that had failed
C20_Witness ==
    /\ \A r \in Reqs : req[r].job # Undefined
    /\ lookup.status = 200
    /\ lookup.id \in DOMAIN pdfJobs
    /\ lookup.body = Defined(pdfJobs[lookup.id])
    /\ pdfJobs[lookup.id].status = "failed"

\* the answer of the input validation to request r, as the fixed order of
\* the three checks gives it: none when all three pass
ExpectedRejection(r) ==
    IF req[r].file = Undefined
    THEN Defined(JsonResponse(400, <<"No PDF file uploaded">>))
    ELSE IF req[r].file[1].mimetype # "application/pdf"
    THEN Defined(JsonResponse(400, <<"File must be a PDF">>))
    ELSE IF req[r].instructions = Undefined \/ req[r].instructions[1] = <<>>
    THEN Defined(JsonResponse(400, <<"Invalid instructions">>))
    ELSE Undefined

\* request r is past the input validation
Validated(r) == req[r].pc \notin {"off", "coming", "validate"}

\* C21: input validation runs in a fixed order and stops at the first
\* failure: a missing file gives 400 'No PDF file uploaded', otherwise a MIME
\* type other than application/pdf gives 400 'File must be a PDF', otherwise
\* missing or empty instructions give 400 'Invalid instructions'; an empty
\* instruction string never reaches parseInstructions through the handler.
C21_ValidationOrder ==
    \A r \in Reqs :
        /\ Validated(r) =>
               IF ExpectedRejection(r) # Undefined
               THEN /\ req[r].pc = "done"
                    /\ req[r].responses = <<ExpectedRejection(r)[1]>>
                    /\ call[r] = IdleCall
               ELSE \A k \in 1..Len(req[r].responses) :
                        req[r].responses[k].status # 400
        /\ call[r].pc # "idle" =>
               /\ req[r].instructions # Undefined
               /\ req[r].instructions[1] # <<>>

\* a request with neither file nor instructions was answered for its file,
\* and one with a text file and empty instructions for its MIME type
C21_Witness ==
    \E r, o \in Reqs :
        /\ req[r].file = Undefined
        /\ req[r].instructions = Undefined
        /\ req[r].responses = <<JsonResponse(400, <<"No PDF file uploaded">>)>>
        /\ req[o].file # Undefined
        /\ req[o].file[1].mimetype = "text/plain"
        /\ req[o].instructions = Defined(<<>>)
        /\ req[o].responses = <<JsonResponse(400, <<"File must be a PDF">>)>>

\* what a request ends with: its response and, when it has one, the status,
\* resultFiles and errorMessage of its job
Outcome(response, job) == [response |-> response, job |-> job]

FailedOutcome(message) ==
    Outcome(JsonResponse(500, message),
            Defined([status |-> "failed", resultFiles |-> Null,
                     errorMessage |-> Defined(message)]))

\* the outcomes of a request with this upload and this instructions field
\* when it is the only request the server handles, computed step after step
\* from the request alone; the archive generation may be rejected or not
AloneOutcomes(file, instr) ==
    IF file = Undefined
    THEN {Outcome(JsonResponse(400, <<"No PDF file uploaded">>), Undefined)}
    ELSE IF file[1].mimetype # "application/pdf"
    THEN {Outcome(JsonResponse(400, <<"File must be a PDF">>), Undefined)}
    ELSE IF instr = Undefined \/ instr[1] = <<>>
    THEN {Outcome(JsonResponse(400, <<"Invalid instructions">>), Undefined)}
    ELSE LET groups == parseInstructions(instr[1])
             source == file[1].buffer
             n      == Len(source.pages)
             stem   == WithoutExtension(file[1].originalname)
         IN  IF groups.threw THEN {FailedOutcome(groups.message)}
             ELSE IF ~source.loadable THEN {FailedOutcome(LoadErrorMessage)}
             ELSE IF \E k \in 1..Len(Flatten(groups.value)) : Flatten(groups.value)[k] > n
             THEN LET scan == Flatten(groups.value)
                      k    == Min({j \in 1..Len(scan) : scan[j] > n})
                  IN  {FailedOutcome(DoesNotExist(scan[k], n))}
             ELSE LET names   == [g \in 1..Len(groups.value) |->
                                     ExpectedName(stem, groups.value[g])]
                      entries == [g \in 1..Len(groups.value) |->
                                     [filename |-> names[g],
                                      data |-> <<"%PDF">>
                                                 \o [k \in 1..Len(groups.value[g]) |->
                                                        source.pages[groups.value[g][k]]]
                                                 \o <<"%%EOF">>]]
                      zipName == stem \o <<"-split.zip">>
                  IN  {FailedOutcome(ArchiveErrorMessage)} \cup
                      (IF \E k \in 1..Len(zipName) : zipName[k] \in InvalidHeaderChars
                       THEN {Outcome(JsonResponse(500, HeaderErrorMessage),
                                     Defined([status |-> "failed",
                                              resultFiles |-> Defined(names),
                                              errorMessage |-> Defined(HeaderErrorMessage)]))}
                       ELSE {Outcome(ZipResponse(Defined(zipName),
                                                 Defined(ZipOf(entries, <<>>))),
                                     Defined([status |-> "completed",
                                              resultFiles |-> Defined(names),
                                              errorMessage |-> Null]))})

\* request r has ended with outcome o
EndedWith(r, o) ==
    /\ req[r].responses = <<o.response>>
    /\ IF o.job = Undefined THEN req[r].job = Undefined
       ELSE /\ req[r].job # Undefined
            /\ JobOf(r).id = req[r].job[1]
            /\ JobOf(r).originalFilename = req[r].file[1].originalname
            /\ JobOf(r).instructions = req[r].instructions[1]
            /\ JobOf(r).status = o.job[1].status
            /\ JobOf(r).resultFiles = o.job[1].resultFiles
            /\ JobOf(r).errorMessage = o.job[1].errorMessage

\* every finished request has ended as it would alone
EndsAsAlone ==
    \A r \in Reqs :
        req[r].pc = "done" =>
            \E o \in AloneOutcomes(req[r].file, req[r].instructions) : EndedWith(r, o)

\* request r takes the step
Steps(r) == req'[r] # req[r] \/ call'[r] # call[r]

\* a step changes the handler run and the activation of one request only, and
\* of the job records only that request's own
OwnRecordsOnly ==
    \A r \in Reqs :
        Steps(r) =>
            /\ \A o \in Reqs \ {r} : req'[o] = req[o] /\ call'[o] = call[o]
            /\ \A id \in DOMAIN pdfJobs' :
                   (id \notin DOMAIN pdfJobs \/ pdfJobs'[id] # pdfJobs[id])
                       => req'[r].job = Defined(id)
            /\ DOMAIN pdfJobs \subseteq DOMAIN pdfJobs'

\* C22: for every interleaving of concurrent split requests at their await
\* points, each request's response and the final state of its job record are
\* the same as if the request had run alone, and no request updates another
\* request's job record or outputs.
C22_Isolation ==
    /\ []EndsAsAlone
    /\ [][OwnRecordsOnly]_vars

\* both requests have finished, one with the archive of its two outputs and
\* a completed job, the other with an error and a failed job
C22_Witness ==
    \E r, o \in Reqs :
        /\ r # o
        /\ req[r].pc = "done"
        /\ req[o].pc = "done"
        /\ Successful(r)
        /\ JobOf(r).status = "completed"
        /\ FailedAfterCreation(o)
        /\ JobOf(o).status = "failed"
        /\ Len(call[r].results) = 2

\* how far the handler run of a request has come
Progress(pc) ==
    CASE pc = "off"        -> 0
      [] pc = "coming"     -> 0
      [] pc = "validate"   -> 1
      [] pc = "createJob"  -> 2
      [] pc = "split"      -> 3
      [] pc = "awaitSplit" -> 4
      [] pc = "sendZip"    -> 5
      [] pc = "rethrown"   -> 6
      [] pc = "done"       -> 7

\* request r has arrived and its handler run is at a point from which no
\* step goes on: ended, or waiting for an activation that does not run
Stopped(r) ==
    \/ req[r].pc = "done"
    \/ req[r].pc = "awaitSplit" /\ call[r].pc = "idle"

\* a request has no response until its handler run ends and exactly one then;
\* a handler run stops only where it has ended
OneResponse ==
    \A r \in Reqs :
        /\ Len(req[r].responses) = IF req[r].pc = "done" THEN 1 ELSE 0
        /\ Stopped(r) => req[r].pc = "done"

\* the handler run only moves forward, the split is entered in the one step
\* from "split" to "awaitSplit", and a returned activation is never run again
SplitOnce ==
    \A r \in Reqs :
        /\ req'[r] # req[r] => Progress(req'[r].pc) > Progress(req[r].pc)
        /\ (call[r] = IdleCall /\ call'[r] # IdleCall)
               => (req[r].pc = "split" /\ req'[r].pc = "awaitSplit")
        /\ (call[r] # IdleCall => call'[r] # IdleCall)
        /\ (call[r].pc = "returned" => call'[r] = call[r])

\* C23: each request is processed once and reported once: the handler invokes
\* the split at most once per request, with no retry after a failure, and
\* sends exactly one HTTP response on every path (validation failure,
\* success, processing failure), never two and never none.
C23_OnceAndReportedOnce ==
    /\ []OneResponse
    /\ [][SplitOnce]_vars

\* the three paths were taken: one request ended on a validation failure or
\* with the archive, the other one on a failed split that was not run again
C23_Witness ==
    \E r, o \in Reqs :
        /\ r # o
        /\ Stopped(r)
        /\ Stopped(o)
        /\ Len(req[r].responses) = 1
        /\ req[r].responses[1].status \in {200, 400}
        /\ HasReturned(o)
        /\ ~ResultOf(o).success
        /\ req[o].responses = <<JsonResponse(500, ResultOf(o).error[1])>>

\* request r has ended and its job has left 'processing'
Settled(r) ==
    /\ req[r].job # Undefined
    /\ req[r].pc = "done"
    /\ Len(req[r].responses) = 1
    /\ JobOf(r).status \in {"completed", "failed"}

\* C24: with the PDF-library, archive and store calls returning, every
\* request that created a job eventually terminates with a response, and by
\* then its job is 'completed' or 'failed'; no job stays in 'processing'
\* after its request has finished.
C24_JobSettles ==
    /\ \A r \in Reqs : (req[r].job # Undefined) ~> Settled(r)
    /\ [](\A r \in Reqs :
              (req[r].pc = "done" /\ req[r].job # Undefined) => Settled(r))

\* both requests created a job and have ended, one job completed and one
\* failed
C24_Witness ==
    \E r, o \in Reqs :
        /\ Settled(r)
        /\ Settled(o)
        /\ req[r].job # Undefined
        /\ req[o].job # Undefined
        /\ JobOf(r).status = "completed"
        /\ JobOf(o).status = "failed"

\* C25: every group returned by parseInstructions is non-empty, consists of
\* integers >= 1 and is a contiguous strictly ascending run, each element its
\* predecessor plus 1; this holds for every input on which the parser does
\* not fail.
C25_GroupsAreRuns ==
    (parsed.called /\ ~parsed.threw) =>
        \A g \in 1..Len(parsed.value) :
            LET group == parsed.value[g]
            IN  /\ Len(group) >= 1
                /\ \A i \in 1..Len(group) : group[i] \in Nat /\ group[i] >= 1
                /\ \A i \in 2..Len(group) : group[i] = group[i - 1] + 1

\* '1-2,2' was parsed into the run 1, 2 and the single page 2
C25_Witness ==
    /\ instructions = <<"1", "-", "2", ",", "2">>
    /\ parsed.called
    /\ ~parsed.threw
    /\ parsed.value = <<<<1, 2>>, <<2>>>>

\* the run the first two pieces of a range token stand for
RunOfFirstTwoPieces(t) ==
    LET a == parseInt(Stripped(FirstPiece(t))).val
        b == parseInt(Stripped(SecondPiece(t))).val
    IN  [i \in 1..(b - a + 1) |-> a + i - 1]

\* C26: a token with more than one '-' is classified as a range and only its
\* first two dash-delimited pieces are used: '1-2-0' yields the single group
\* [1,2], later pieces being ignored whatever they contain; a token whose
\* first or second piece is empty, such as '-2' or '1--2', fails with
\* 'Invalid range: <token>'.
C26_FirstTwoPieces ==
    parsed.called =>
        \A k \in TokenIndices(instructions) :
            LET t == Token(instructions, k)
            IN  (ReachesToken(instructions, k) /\ HasDash(t)) =>
                    /\ (Stripped(FirstPiece(t)) = <<>> \/ Stripped(SecondPiece(t)) = <<>>)
                           => /\ parsed.threw
                              /\ parsed.message = <<"Invalid range: ">> \o t
                    /\ Cardinality(DashPositions(t)) > 1 =>
                           IF RangeFails(t)
                           THEN /\ parsed.threw
                                /\ parsed.message = <<"Invalid range: ">> \o t
                           ELSE ~parsed.threw =>
                                    parsed.value[k] = RunOfFirstTwoPieces(t)
                    /\ (instructions \in {<<"1", "-", "2", "-", "0">>,
                                          <<"1", "-", "2", "-", "x">>,
                                          <<"1", "-", "2", "-", "-">>})
                           => (~parsed.threw /\ parsed.value = <<<<1, 2>>>>)

\* '1-2-x' was parsed into the single group [1,2]
C26_Witness ==
    /\ instructions = <<"1", "-", "2", "-", "x">>
    /\ parsed.called
    /\ ~parsed.threw
    /\ parsed.value = <<<<1, 2>>>>

\* the instructions of request r, once it has passed the input validation
InstructionsOf(r) == req[r].instructions[1]

\* the tokens of request r's instructions that fail
FailingTokens(r) ==
    {k \in TokenIndices(InstructionsOf(r)) : TokenFails(Token(InstructionsOf(r), k))}

\* the message for the first failing token of request r
FirstTokenError(r) ==
    LET t == Token(InstructionsOf(r), Min(FailingTokens(r)))
    IN  IF HasDash(t) THEN <<"Invalid range: ">> \o t
        ELSE <<"Invalid page number: ">> \o t

\* the pages asked for by the tokens of r's instructions, read off the string
PagesAsked(r) ==
    LET s == InstructionsOf(r)
    IN  Flatten([k \in TokenIndices(s) |->
                    IF HasDash(Token(s, k)) THEN RunOfFirstTwoPieces(Token(s, k))
                    ELSE <<parseInt(Token(s, k)).val>>])

\* C27: the error reported for a request is that of the first failing check in
\* the order instruction tokens left to right, then document load, then
\* page-bound validation in group order; a malformed token is reported, and
\* the document is never loaded, also when the source is unloadable or an
\* earlier token references a page beyond the document, and the groups of the
\* tokens before the malformed one are discarded.
C27_FirstFailingCheck ==
    \A r \in Reqs :
        call[r].pc # "idle" =>
            IF FailingTokens(r) # {}
            THEN /\ HasReturned(r)
                 /\ ResultOf(r) = Failure(FirstTokenError(r))
                 /\ call[r].pdfDoc = <<>>
                 /\ call[r].totalPages = 0
                 /\ call[r].ranges = <<>>
                 /\ call[r].results = <<>>
                 /\ call[r].created = 0
            ELSE IF ~req[r].file[1].buffer.loadable
            THEN HasReturned(r) => ResultOf(r) = Failure(LoadErrorMessage)
            ELSE LET n     == Len(req[r].file[1].buffer.pages)
                     scan  == PagesAsked(r)
                     above == {k \in 1..Len(scan) : scan[k] > n}
                 IN  HasReturned(r) =>
                         IF above # {}
                         THEN ResultOf(r) = Failure(DoesNotExist(scan[Min(above)], n))
                         ELSE \/ ResultOf(r).success
                              \/ ResultOf(r) = Failure(ArchiveErrorMessage)

\* a malformed token after a page beyond the document was reported for one
\* request, and a malformed range on an unloadable source for the other
C27_Witness ==
    \E r, o \in Reqs :
        /\ HasReturned(r)
        /\ req[r].instructions = Defined(<<"9", ",", "x">>)
        /\ req[r].file[1].buffer.loadable
        /\ ResultOf(r) = Failure(<<"Invalid page number: ", "x">>)
        /\ HasReturned(o)
        /\ req[o].instructions = Defined(<<"2", "-", "1">>)
        /\ ~req[o].file[1].buffer.loadable
        /\ ResultOf(o) = Failure(<<"Invalid range: ", "2", "-", "1">>)

\* C28: in every reachable state of the job store each job record is
\* consistent with its status: 'processing' implies resultFiles = null and
\* errorMessage = null; 'completed' implies resultFiles is a list and
\* errorMessage = null; 'failed' implies errorMessage is a string and
\* resultFiles = null.
C28_StatusConsistent ==
    \A id \in DOMAIN pdfJobs :
        LET job == pdfJobs[id]
        IN  /\ job.status \in {"processing", "completed", "failed"}
            /\ job.status = "processing" =>
                   (job.resultFiles = Null /\ job.errorMessage = Null)
            /\ job.status = "completed" =>
                   (job.resultFiles # Null /\ job.errorMessage = Null)
            /\ job.status = "failed" =>
                   (job.errorMessage # Null /\ job.resultFiles = Null)

\* a client has received the archive of request r
ArchiveReceived(r) ==
    \E k \in 1..Len(req[r].responses) :
        /\ req[r].responses[k].contentType = "application/zip"
        /\ req[r].responses[k].body # Undefined

\* the job of a request whose archive was received is 'completed'
CompletedWhenReceived ==
    \A r \in Reqs :
        ArchiveReceived(r) => (req[r].job # Undefined /\ JobOf(r).status = "completed")

\* the archive is sent for a job that is 'completed' already, and the record
\* of a request whose archive was received is not changed any more
CompletedBeforeSent ==
    \A r \in Reqs :
        /\ (~ArchiveReceived(r) /\ ArchiveReceived(r)')
               => /\ JobOf(r).status = "completed"
                  /\ pdfJobs'[req[r].job[1]] = JobOf(r)
        /\ ArchiveReceived(r)
               => /\ ArchiveReceived(r)'
                  /\ pdfJobs'[req[r].job[1]] = JobOf(r)

\* C29: on the success path the job record is updated to 'completed' before
\* the zip response is sent: in every state in which a client has received
\* the archive, the request's job has status 'completed', and it keeps that
\* status from then on.
C29_CompletedBeforeArchive ==
    /\ []CompletedWhenReceived
    /\ [][CompletedBeforeSent]_vars

\* one client has received its archive and its job is 'completed', while the
\* other request has failed
C29_Witness ==
    \E r, o \in Reqs :
        /\ r # o
        /\ ArchiveReceived(r)
        /\ JobOf(r).status = "completed"
        /\ FailedAfterCreation(o)

----------------------------------------------------------------------------
(* C30 *)

\* the response request r was given
Answer(r) == req[r].responses[1]

\* generateAsync rejected in the run of request r
ArchiveRejected(r) == Answer(r).message = ArchiveErrorMessage

\* the job record of request r without its identifier, if a job was created
FinalJobRecord(r) ==
    IF req[r].job = Undefined THEN Undefined
    ELSE Defined([pdfJobs[req[r].job[1]] EXCEPT !.id = ""])

\* the names of the entries of the archive request r was sent, if any
EntryNames(r) ==
    IF Answer(r).body = Undefined THEN <<>>
    ELSE [k \in 1..Len(Answer(r).body[1]) |-> Answer(r).body[1][k].name]

\* both handlers have answered the request and the archive library failed in
\* neither
BothAnswered ==
    /\ \A r \in Reqs : req[r].pc = "done" /\ Len(req[r].responses) = 1
    /\ \A r \in Reqs : ~ArchiveRejected(r)

\* C30: the current handler and the earlier handler built into dist/index.js
\* are observationally equivalent: given the same request (file present or
\* absent, MIME type, instructions, source document), they answer with the
\* same status code, the same message or the same zip filename and entry
\* names, and leave the same final job record.
C30_SameObservations ==
    BothAnswered =>
        /\ Answer(Current).status = Answer(Earlier).status
        /\ Answer(Current).message = Answer(Earlier).message
        /\ Answer(Current).filename = Answer(Earlier).filename
        /\ EntryNames(Current) = EntryNames(Earlier)
        /\ FinalJobRecord(Current) = FinalJobRecord(Earlier)

====
